---- MODULE Spec2Model ----
(***************************************************************************)
(* A model of tool.py, the job group synchronisation tool: the manifest    *)
(* job_groups.yaml, the directory job_groups/, the openQA server's job     *)
(* groups, and the five modes --gendb, --fetch, --push, --orphans and      *)
(* --headers.                                                              *)
(*                                                                         *)
(* Text is modelled character by character: a Python str is a sequence of  *)
(* one-character strings, so that strip, lower, replace, startswith and    *)
(* findall are computed as Python computes them.                           *)
(***************************************************************************)
EXTENDS Integers, Sequences, FiniteSets, TLC

\* ------------------------------------------------------------------------
\* Bounds of the model
\* ------------------------------------------------------------------------

\* Job group ids are 1..MaxId.
MaxId == 3

\* A job group name given to normalize_jobgroup_filename is the
\* concatenation of at most MaxNameParts fragments of NameFragments.
MaxNameParts == 3

\* ------------------------------------------------------------------------
\* Python str operations
\* ------------------------------------------------------------------------

\* An optional value: None, or Some(x) for the value x.
None == <<>>

Some(x) == <<x>>

\* The value of an optional that is not None
Val(o) == o[1]

\* s[n:]
Drop(s, n) == SubSeq(s, n + 1, Len(s))

\* s.startswith(p)
StartsWith(s, p) == Len(s) >= Len(p) /\ SubSeq(s, 1, Len(p)) = p

\* s.endswith(p)
EndsWith(s, p) == Len(s) >= Len(p) /\ SubSeq(s, Len(s) - Len(p) + 1, Len(s)) = p

UpperCase ==
  <<"A","B","C","D","E","F","G","H","I","J","K","L","M",
    "N","O","P","Q","R","S","T","U","V","W","X","Y","Z">>

LowerCase ==
  <<"a","b","c","d","e","f","g","h","i","j","k","l","m",
    "n","o","p","q","r","s","t","u","v","w","x","y","z">>

\* c.lower() of one character
LowerChar(c) ==
  IF \E i \in 1..26 : UpperCase[i] = c
    THEN LowerCase[CHOOSE i \in 1..26 : UpperCase[i] = c]
    ELSE c

\* s.lower()
Lower(s) == [i \in 1..Len(s) |-> LowerChar(s[i])]

Whitespace == {" ", "\t", "\n", "\r"}

\* s.strip(): the leading and the trailing whitespace removed
Strip(s) ==
  LET keep == {i \in 1..Len(s) : s[i] \notin Whitespace}
  IN IF keep = {} THEN <<>>
     ELSE LET first == CHOOSE i \in keep : \A j \in keep : i <= j
              last  == CHOOSE i \in keep : \A j \in keep : j <= i
          IN SubSeq(s, first, last)

\* s.replace(old, new): every non-overlapping occurrence of old, found from
\* the left in one pass, replaced by new; the text put in is not scanned
\* again.
RECURSIVE Replace(_, _, _)
Replace(s, old, new) ==
  IF s = <<>> THEN <<>>
  ELSE IF StartsWith(s, old) THEN new \o Replace(Drop(s, Len(old)), old, new)
  ELSE <<Head(s)>> \o Replace(Tail(s), old, new)

\* c * n
Repeat(c, n) == [i \in 1..n |-> c]

\* sep.join(lines)
RECURSIVE Join(_, _)
Join(sep, lines) ==
  IF lines = <<>> THEN <<>>
  ELSE IF Len(lines) = 1 THEN lines[1]
  ELSE lines[1] \o sep \o Join(sep, Tail(lines))

\* len(re.findall(pat, text)) for a pattern without metacharacters: the
\* matches are taken from the left and do not overlap.
RECURSIVE CountFrom(_, _, _)
CountFrom(text, pat, from) ==
  LET hits == {i \in from..(Len(text) - Len(pat) + 1) :
                 SubSeq(text, i, i + Len(pat) - 1) = pat}
  IN IF hits = {} THEN 0
     ELSE LET i == CHOOSE h \in hits : \A k \in hits : h <= k
          IN 1 + CountFrom(text, pat, i + Len(pat))

FindAllCount(pat, text) == CountFrom(text, pat, 1)

Max(a, b) == IF a >= b THEN a ELSE b

\* ------------------------------------------------------------------------
\* normalize_jobgroup_filename
\* ------------------------------------------------------------------------

DeprecatedMarker == <<"[","d","e","p","r","e","c","a","t","e","d","]">>
DeprecatedSuffix == <<"D","E","P","R","E","C","A","T","E","D">>

normalize_jobgroup_filename(s) ==
  LET s1  == Lower(Strip(s))
      s2  == Replace(s1, <<" ">>, <<"_">>)
      s3  == Replace(Replace(s2, <<"(">>, <<>>), <<")">>, <<>>)
      s4  == Replace(Replace(s3, <<":">>, <<>>), <<"/">>, <<>>)
      s5  == Replace(s4, <<"_","-","_">>, <<"-">>)
      s6  == Replace(Replace(s5, <<",">>, <<>>), <<"+">>, <<>>)
      s7  == Replace(s6, <<"_","_">>, <<"_">>)
  IN Replace(s7, DeprecatedMarker, DeprecatedSuffix)

\* ------------------------------------------------------------------------
\* generate_header
\* ------------------------------------------------------------------------

WarningTitle == <<"W","A","R","N","I","N","G">>

\* "This file is managed in GIT!"
ManagedInGit ==
  <<"T","h","i","s"," ","f","i","l","e"," ","i","s"," ","m","a","n","a","g",
    "e","d"," ","i","n"," ","G","I","T","!">>

\* "Any changes via the openQA WebUI will get overwritten!"
OverwrittenNotice ==
  <<"A","n","y"," ","c","h","a","n","g","e","s"," ","v","i","a"," ","t","h",
    "e"," ","o","p","e","n","Q","A"," ","W","e","b","U","I"," ","w","i","l",
    "l"," ","g","e","t"," ","o","v","e","r","w","r","i","t","t","e","n","!">>

\* "https://github.com/os-autoinst/opensuse-jobgroups"
ProjectUrl ==
  <<"h","t","t","p","s",":","/","/","g","i","t","h","u","b",".","c","o","m",
    "/","o","s","-","a","u","t","o","i","n","s","t","/","o","p","e","n","s",
    "u","s","e","-","j","o","b","g","r","o","u","p","s">>

MinLineLength == 58

\* _align(line): the line centred in line_length columns, the odd space on
\* the right
align(line, line_length) ==
  LET prefix_len == (line_length - Len(line)) \div 2
      suffix_len == (line_length - Len(line)) - prefix_len
  IN Repeat(" ", prefix_len) \o line \o Repeat(" ", suffix_len)

generate_header(filename) ==
  LET content == <<WarningTitle, <<>>, ManagedInGit, OverwrittenNotice, <<>>,
                   ProjectUrl, filename>>
      longest == CHOOSE n \in {Len(content[i]) + 4 : i \in 1..Len(content)} :
                   \A i \in 1..Len(content) : Len(content[i]) + 4 <= n
      line_length == Max(longest, MinLineLength)
      border  == Repeat("#", line_length)
      lines   == <<border>> \o content \o <<border>>
  IN Join(<<"\n">>,
          [i \in 1..Len(lines) |->
             <<"#">> \o align(lines[i], line_length) \o <<"#">>])

\* ------------------------------------------------------------------------
\* The manifest store job_groups.yaml and the dict loaded from it
\* ------------------------------------------------------------------------

Ids == 1..MaxId

\* bool(x) of an optional int: None and 0 are false
TruthyInt(x) == x # None /\ Val(x) # 0

\* bool(x) of an optional str: None and '' are false
TruthyStr(x) == x # None /\ Val(x) # <<>>

\* A dict {id: slug} is the sequence of its items in insertion order.
Keys(d) == {d[i].id : i \in 1..Len(d)}

\* d[k] = v: a new key goes to the end, a known key keeps its place
DictSet(d, k, v) ==
  IF k \in Keys(d)
    THEN [i \in 1..Len(d) |-> IF d[i].id = k THEN [id |-> k, slug |-> v] ELSE d[i]]
    ELSE Append(d, [id |-> k, slug |-> v])

\* The items of d in ascending order of their keys (yaml.safe_dump sorts the
\* keys of a mapping).
RECURSIVE SortedItems(_)
SortedItems(d) ==
  IF d = <<>> THEN <<>>
  ELSE LET m == CHOOSE i \in 1..Len(d) : \A j \in 1..Len(d) : d[i].id <= d[j].id
       IN <<d[m]>> \o SortedItems([i \in 1..(Len(d) - 1) |->
                                     IF i < m THEN d[i] ELSE d[i + 1]])

\* The file job_groups.yaml: whether it exists, whether it begins with the
\* flow mapping "{}" that yaml.safe_dump writes for an empty dict, and its
\* block lines "<id>: <slug>".
NoStore == [exists |-> FALSE, flow |-> FALSE, lines |-> <<>>]

\* yaml.safe_load raises on "{}" followed by block lines: a second mapping
\* after the document's root node.
StoreParses(st) == ~(st.flow /\ st.lines # <<>>)

\* job_groups_db = yaml.safe_load(open('job_groups.yaml')), {} when the file
\* does not exist; of a key written twice the last value is kept.
RECURSIVE DictOfLines(_, _)
DictOfLines(d, lines) ==
  IF lines = <<>> THEN d
  ELSE DictOfLines(DictSet(d, Head(lines).id, Head(lines).slug), Tail(lines))

yaml_load(st) == IF st.exists THEN DictOfLines(<<>>, st.lines) ELSE <<>>

\* yaml.safe_dump(job_groups_db, open('job_groups.yaml', 'w'))
yaml_dump(d) ==
  IF d = <<>> THEN [exists |-> TRUE, flow |-> TRUE, lines |-> <<>>]
  ELSE [exists |-> TRUE, flow |-> FALSE, lines |-> SortedItems(d)]

\* open('job_groups.yaml', 'a').write(yaml_line + "\n")
yaml_append(st, gid, fs_name) ==
  [exists |-> TRUE, flow |-> st.flow,
   lines |-> Append(st.lines, [id |-> gid, slug |-> fs_name])]

\* ------------------------------------------------------------------------
\* State
\* ------------------------------------------------------------------------

VARIABLES
  remote,        \* the server's job groups: id -> [name, template]
  store,         \* the file job_groups.yaml
  files,         \* the directory job_groups/: file name -> text
  pc,            \* "idle" before a run, "fetch" or "push" in that loop, "done" after it
  args,          \* the command line of the current (or the last) run
  job_groups_db, \* the dict loaded from job_groups.yaml
  job_groups,    \* the listing fetched at the start of the run, sorted by id
  idx,           \* the position of the loop in job_groups_db.items()
  exit_code,     \* the exit code push --dry-run and the checks accumulate
  status,        \* the exit status of the last run, 0 before the first
  fault,         \* what cut the run short: "none", "yaml", "list", "lookup", "api"
  requests,      \* the apply requests sent in this run, with their outcomes
  written,       \* the files fetch wrote in this run
  diagnostics,   \* what --orphans or --headers reported in this run
  store0,        \* history: job_groups.yaml as the run found it
  fetch_log,     \* history: per file, the last two texts fetch wrote and their templates
  norm_in,       \* the argument of normalize_jobgroup_filename
  norm_out,      \* its result
  norm_calls     \* how often it has been applied to the name drawn at Init

tool_vars ==
  <<remote, store, files, pc, args, job_groups_db, job_groups, idx, exit_code,
    status, fault, requests, written, diagnostics, store0, fetch_log>>

norm_vars == <<norm_in, norm_out, norm_calls>>

vars == <<tool_vars, norm_vars>>

NoArgs ==
  [action |-> "none", dry_run |-> FALSE, filter_job_group |-> None,
   filter_file_name |-> None]

\* The state of the process before any run; the three stores are given.
Idle ==
  /\ pc = "idle"
  /\ args = NoArgs
  /\ job_groups_db = <<>>
  /\ job_groups = <<>>
  /\ idx = 0
  /\ exit_code = 0
  /\ status = 0
  /\ fault = "none"
  /\ requests = <<>>
  /\ written = <<>>
  /\ diagnostics = {}
  /\ store0 = store
  /\ fetch_log = <<>>

NormIdle ==
  /\ norm_in = <<>>
  /\ norm_out = <<>>
  /\ norm_calls = 0

\* sorted(api_request('job_groups'), key=lambda i: i['id'])
RECURSIVE ListSorted(_, _)
ListSorted(srv, S) ==
  IF S = {} THEN <<>>
  ELSE LET m == CHOOSE i \in S : \A j \in S : i <= j
       IN <<[id |-> m, name |-> srv[m].name, template |-> srv[m].template]>>
            \o ListSorted(srv, S \ {m})

list_job_groups(srv) == ListSorted(srv, DOMAIN srv)

\* The ids of job_groups_by_id
SnapshotIds == {job_groups[i].id : i \in 1..Len(job_groups)}

\* job_groups_by_id[gid]
ById(gid) == job_groups[CHOOSE i \in 1..Len(job_groups) : job_groups[i].id = gid]

\* A run begins: the arguments are parsed, job_groups.yaml is loaded and the
\* job groups are listed.
Begin(a, dry, jf, ff) ==
  /\ pc = "idle"
  /\ StoreParses(store)
  /\ args' = [action |-> a, dry_run |-> dry, filter_job_group |-> jf,
              filter_file_name |-> ff]
  /\ job_groups' = list_job_groups(remote)
  /\ store0' = store
  /\ fault' = "none"
  /\ requests' = <<>>
  /\ written' = <<>>

\* yaml.safe_load raises on a job_groups.yaml it cannot parse; only
\* FileNotFoundError is caught, so the run ends with a traceback, status 1.
LoadFails(a) ==
  \E dry \in BOOLEAN :
    /\ pc = "idle"
      /\ ~StoreParses(store)
      /\ args' = [action |-> a, dry_run |-> dry, filter_job_group |-> None,
                filter_file_name |-> None]
    /\ store0' = store
    /\ status' = 1
    /\ fault' = "yaml"
    /\ job_groups_db' = <<>>
    /\ job_groups' = <<>>
    /\ idx' = 0
    /\ exit_code' = 0
    /\ requests' = <<>>
    /\ written' = <<>>
    /\ diagnostics' = {}
    /\ pc' = "done"
    /\ UNCHANGED <<remote, store, files, fetch_log, norm_vars>>

\* api_request('job_groups') prints what openqa-cli returned and exits with
\* status 1 when that is not JSON.
ListFails(a) ==
  \E dry \in BOOLEAN :
    /\ pc = "idle"
      /\ StoreParses(store)
      /\ args' = [action |-> a, dry_run |-> dry, filter_job_group |-> None,
                filter_file_name |-> None]
    /\ store0' = store
    /\ status' = 1
    /\ fault' = "list"
    /\ job_groups_db' = yaml_load(store)
    /\ job_groups' = <<>>
    /\ idx' = 0
    /\ exit_code' = 0
    /\ requests' = <<>>
    /\ written' = <<>>
    /\ diagnostics' = {}
    /\ pc' = "done"
    /\ UNCHANGED <<remote, store, files, fetch_log, norm_vars>>

\* ------------------------------------------------------------------------
\* --gendb
\* ------------------------------------------------------------------------

\* The loop of gendb without -j: every listed job group is entered under its
\* normalized name.
RECURSIVE gendb_rebuild(_, _)
gendb_rebuild(d, groups) ==
  IF groups = <<>> THEN d
  ELSE gendb_rebuild(
         DictSet(d, Head(groups).id, normalize_jobgroup_filename(Head(groups).name)),
         Tail(groups))

\* A gendb that does not empty the loaded dict
gendb_initial_db_kept(loaded, jf) == loaded

\* if not args.filter_job_group: job_groups_db = {}
gendb_initial_db(loaded, jf) == IF ~TruthyInt(jf) THEN <<>> ELSE loaded

\* --gendb without -j: job_groups_db is rebuilt from the listing and, unless
\* --dry-run is given, dumped over job_groups.yaml.
GendbAll(dry, jf) ==
  /\ ~TruthyInt(jf)
  /\ Begin("gendb", dry, jf, None)
  /\ job_groups_db' = gendb_rebuild(gendb_initial_db(yaml_load(store), jf),
                                    list_job_groups(remote))
  /\ store' = IF dry THEN store ELSE yaml_dump(job_groups_db')
  /\ idx' = 0
  /\ exit_code' = 0
  /\ status' = 0
  /\ diagnostics' = {}
  /\ pc' = "done"
  /\ UNCHANGED <<remote, files, fetch_log, norm_vars>>

\* yaml_line after the loop of gendb -j: the entry of the listed job group
\* with that id, None when there is none.
gendb_line(groups, jf) ==
  LET hit == {i \in 1..Len(groups) : groups[i].id = Val(jf)}
  IN IF hit = {} THEN None
     ELSE LET last == CHOOSE i \in hit : \A j \in hit : j <= i
          IN Some([id |-> groups[last].id,
                   slug |-> normalize_jobgroup_filename(groups[last].name)])

\* A gendb -j that does not look for the id in the loaded dict
gendb_appends_always(yaml_line, jf, db) == yaml_line # None

\* Whether gendb -j appends yaml_line to job_groups.yaml
gendb_appends(yaml_line, jf, db) == yaml_line # None /\ Val(jf) \notin Keys(db)

\* --gendb -j <id>: the entry is printed and, when job_groups.yaml does not
\* hold the id yet, appended to it.
GendbOne(dry, jf) ==
  /\ TruthyInt(jf)
  /\ Begin("gendb", dry, jf, None)
  /\ job_groups_db' = gendb_initial_db(yaml_load(store), jf)
  /\ LET yaml_line == gendb_line(list_job_groups(remote), jf)
     IN store' = IF gendb_appends(yaml_line, jf, job_groups_db')
                   THEN yaml_append(store, Val(yaml_line).id, Val(yaml_line).slug)
                   ELSE store
  /\ idx' = 0
  /\ exit_code' = 0
  /\ status' = 0
  /\ diagnostics' = {}
  /\ pc' = "done"
  /\ UNCHANGED <<remote, files, fetch_log, norm_vars>>

\* The values of -j: none, or the id of a job group
JobGroupFilters == {None} \cup {Some(i) : i \in Ids}

Gendb ==
  \E dry \in BOOLEAN, jf \in JobGroupFilters :
    GendbAll(dry, jf) \/ GendbOne(dry, jf)

\* The tool is started again after a run.
Again ==
  /\ pc = "done"
  /\ pc' = "idle"
  /\ UNCHANGED <<remote, store, files, args, job_groups_db, job_groups, idx,
                 exit_code, status, fault, requests, written, diagnostics,
                 store0, fetch_log, norm_vars>>

\* ------------------------------------------------------------------------
\* The names the runs are given
\* ------------------------------------------------------------------------

\* Job group names of the server: "Test" and "Devel: X"
NameTest == <<"T","e","s","t">>
NameDevel == <<"D","e","v","e","l",":"," ","X">>

GroupNames == {NameTest, NameDevel}

\* Slugs of hand-written manifest entries
SlugA == <<"a">>
SlugB == <<"b">>

Slugs == {SlugA, SlugB}

\* ------------------------------------------------------------------------
\* The entries --fetch and --push work on
\* ------------------------------------------------------------------------

\* "job_groups/"
JobGroupsDir == <<"j","o","b","_","g","r","o","u","p","s","/">>

\* ".yaml"
DotYaml == <<".","y","a","m","l">>

\* "---\n"
SeparatorLine == <<"-","-","-","\n">>

\* "---\nproducts: {}\nscenarios: {}\n"
EmptyTemplate ==
  <<"-","-","-","\n","p","r","o","d","u","c","t","s",":"," ","{","}","\n",
    "s","c","e","n","a","r","i","o","s",":"," ","{","}","\n">>

\* '%s.yaml' % gname
YamlName(gname) == gname \o DotYaml

\* 'job_groups/%s.yaml' % gname
YamlPath(gname) == JobGroupsDir \o gname \o DotYaml

\* os.path.basename(path): what follows the last "/"
Basename(path) ==
  LET slashes == {i \in 1..Len(path) : path[i] = "/"}
  IN IF slashes = {} THEN path
     ELSE Drop(path, CHOOSE i \in slashes : \A j \in slashes : j <= i)

\* Neither "continue" of the loop over job_groups_db.items() is taken: the
\* entry passes -j and -f.
Selected(entry, a) ==
  /\ ~(TruthyInt(a.filter_job_group) /\ Val(a.filter_job_group) # entry.id)
  /\ ~(/\ TruthyStr(a.filter_file_name)
       /\ Basename(Val(a.filter_file_name)) \notin {entry.slug, YamlName(entry.slug)})

\* The loop is at an entry
AtEntry(loop) == pc = loop /\ idx \in 1..Len(job_groups_db)

\* open(name, 'w').write(text) in job_groups/
WriteFile(dir, name, text) ==
  [f \in DOMAIN dir \cup {name} |-> IF f = name THEN text ELSE dir[f]]

\* A header check that does not know the separator line
has_header_direct(text, header) == StartsWith(text, header)

\* text.startswith(header) or text.startswith("---\n" + header)
has_header(text, header) ==
  StartsWith(text, header) \/ StartsWith(text, SeparatorLine \o header)

\* ------------------------------------------------------------------------
\* --fetch
\* ------------------------------------------------------------------------

\* What fetch writes to filename for the template of the job group
fetch_content(template, filename) ==
  LET header == generate_header(filename)
      body   == IF template = None THEN EmptyTemplate ELSE Val(template)
  IN IF ~has_header(body, header)
       THEN generate_header(filename) \o <<"\n">> \o body
       ELSE body

\* history: the text written to a file, kept with the one written before it
Logged(log, name, template, text) ==
  LET before == IF name \in DOMAIN log THEN log[name] ELSE <<>>
      kept   == IF before = <<>> THEN <<>> ELSE <<before[Len(before)]>>
  IN [f \in DOMAIN log \cup {name} |->
        IF f = name THEN Append(kept, [template |-> template, text |-> text])
        ELSE log[f]]

FetchStart(dry, jf, ff) ==
  /\ Begin("fetch", dry, jf, ff)
  /\ job_groups_db' = yaml_load(store)
  /\ idx' = 1
  /\ pc' = "fetch"
  /\ exit_code' = 0
  /\ status' = 0
  /\ diagnostics' = {}
  /\ UNCHANGED <<remote, store, files, fetch_log, norm_vars>>

\* continue: the entry does not pass -j or -f
FetchSkip ==
  /\ AtEntry("fetch")
  /\ ~Selected(job_groups_db[idx], args)
  /\ idx' = idx + 1
  /\ UNCHANGED <<remote, store, files, pc, args, job_groups_db, job_groups,
                 exit_code, status, fault, requests, written, diagnostics,
                 store0, fetch_log, norm_vars>>

\* A fetch that skips an entry whose id the server does not list
FetchLookupSkips ==
  /\ AtEntry("fetch")
  /\ Selected(job_groups_db[idx], args)
  /\ job_groups_db[idx].id \notin SnapshotIds
  /\ idx' = idx + 1
  /\ UNCHANGED <<remote, store, files, pc, args, job_groups_db, job_groups,
                 exit_code, status, fault, requests, written, diagnostics,
                 store0, fetch_log, norm_vars>>

\* job_groups_by_id[gid] raises KeyError: the run ends with a traceback
FetchLookupFails ==
  /\ AtEntry("fetch")
  /\ Selected(job_groups_db[idx], args)
  /\ job_groups_db[idx].id \notin SnapshotIds
  /\ pc' = "done"
  /\ status' = 1
  /\ fault' = "lookup"
  /\ UNCHANGED <<remote, store, files, args, job_groups_db, job_groups, idx,
                 exit_code, requests, written, diagnostics, store0, fetch_log,
                 norm_vars>>

\* --dry-run: the entry is printed and nothing is written
FetchDryRun ==
  /\ AtEntry("fetch")
  /\ Selected(job_groups_db[idx], args)
  /\ job_groups_db[idx].id \in SnapshotIds
  /\ args.dry_run
  /\ idx' = idx + 1
  /\ UNCHANGED <<remote, store, files, pc, args, job_groups_db, job_groups,
                 exit_code, status, fault, requests, written, diagnostics,
                 store0, fetch_log, norm_vars>>

\* The template of the job group is written to job_groups/<gname>.yaml
FetchWrite ==
  /\ AtEntry("fetch")
  /\ Selected(job_groups_db[idx], args)
  /\ job_groups_db[idx].id \in SnapshotIds
  /\ ~args.dry_run
  /\ LET gname    == job_groups_db[idx].slug
         template == ById(job_groups_db[idx].id).template
         text     == fetch_content(template, YamlPath(gname))
     IN /\ files' = WriteFile(files, YamlName(gname), text)
        /\ written' = Append(written, YamlName(gname))
        /\ fetch_log' = Logged(fetch_log, YamlName(gname), template, text)
  /\ idx' = idx + 1
  /\ UNCHANGED <<remote, store, pc, args, job_groups_db, job_groups,
                 exit_code, status, fault, requests, diagnostics, store0,
                 norm_vars>>

\* The loop is over and the script ends
FetchEnd ==
  /\ pc = "fetch"
  /\ idx > Len(job_groups_db)
  /\ pc' = "done"
  /\ status' = 0
  /\ UNCHANGED <<remote, store, files, args, job_groups_db, job_groups, idx,
                 exit_code, fault, requests, written, diagnostics, store0,
                 fetch_log, norm_vars>>

FetchLoop ==
  FetchSkip \/ FetchLookupFails \/ FetchDryRun \/ FetchWrite \/ FetchEnd

\* ------------------------------------------------------------------------
\* --push
\* ------------------------------------------------------------------------

\* What api_request gets for a POST to job_templates_scheduling/<gid>: a
\* response without an error ("ok"), a response with one ("error"), or
\* output that is not JSON ("garbage"), which is all openqa-cli gives when
\* it cannot read the --param-file.
ApiOutcomes(dir, name) ==
  IF name \in DOMAIN dir THEN {"ok", "error", "garbage"} ELSE {"garbage"}

Request(entry, preview, outcome) ==
  [gid |-> entry.id, preview |-> preview, file |-> YamlName(entry.slug),
   outcome |-> outcome]

PushStart(dry, jf, ff) ==
  /\ Begin("push", dry, jf, ff)
  /\ job_groups_db' = yaml_load(store)
  /\ idx' = 1
  /\ pc' = "push"
  /\ exit_code' = 0
  /\ status' = 0
  /\ diagnostics' = {}
  /\ UNCHANGED <<remote, store, files, fetch_log, norm_vars>>

\* continue: the entry does not pass -j or -f
PushSkip ==
  /\ AtEntry("push")
  /\ ~Selected(job_groups_db[idx], args)
  /\ idx' = idx + 1
  /\ UNCHANGED <<remote, store, files, pc, args, job_groups_db, job_groups,
                 exit_code, status, fault, requests, written, diagnostics,
                 store0, fetch_log, norm_vars>>

\* job_groups_by_id[gid] raises KeyError: the run ends with a traceback
PushLookupFails ==
  /\ AtEntry("push")
  /\ Selected(job_groups_db[idx], args)
  /\ job_groups_db[idx].id \notin SnapshotIds
  /\ pc' = "done"
  /\ status' = 1
  /\ fault' = "lookup"
  /\ UNCHANGED <<remote, store, files, args, job_groups_db, job_groups, idx,
                 exit_code, requests, written, diagnostics, store0, fetch_log,
                 norm_vars>>

\* A dry run that forgets the errors it has shown
push_preview_exit_code_forgotten(code, outcome) == code

\* What the dry-run branch does with the response: an error is shown and
\* remembered in exit_code, and the loop goes on.
push_preview_exit_code(code, outcome) == IF outcome = "error" THEN 1 ELSE code

\* --dry-run: the file is sent with preview=1
PushPreview ==
  /\ AtEntry("push")
  /\ Selected(job_groups_db[idx], args)
  /\ job_groups_db[idx].id \in SnapshotIds
  /\ args.dry_run
  /\ \E outcome \in ApiOutcomes(files, YamlName(job_groups_db[idx].slug)) :
       /\ requests' = Append(requests, Request(job_groups_db[idx], 1, outcome))
       /\ IF outcome = "garbage"
            THEN /\ pc' = "done"
                 /\ status' = 1
                 /\ fault' = "api"
                 /\ UNCHANGED <<idx, exit_code>>
            ELSE /\ exit_code' = push_preview_exit_code(exit_code, outcome)
                 /\ idx' = idx + 1
                 /\ UNCHANGED <<pc, status, fault>>
  /\ UNCHANGED <<remote, store, files, args, job_groups_db, job_groups,
                 written, diagnostics, store0, fetch_log, norm_vars>>

\* A live push that goes on after an error
push_stops_never(outcome) == FALSE

\* Whether the live branch leaves the run on the response: os._exit(1) on
\* the first error
push_stops(outcome) == outcome = "error"

\* The file is sent with preview=0; without an error the server has taken
\* it as the template of the job group.
PushApply ==
  /\ AtEntry("push")
  /\ Selected(job_groups_db[idx], args)
  /\ job_groups_db[idx].id \in SnapshotIds
  /\ ~args.dry_run
  /\ \E outcome \in ApiOutcomes(files, YamlName(job_groups_db[idx].slug)) :
       /\ requests' = Append(requests, Request(job_groups_db[idx], 0, outcome))
       /\ IF outcome = "garbage"
            THEN /\ pc' = "done"
                 /\ status' = 1
                 /\ fault' = "api"
                 /\ UNCHANGED <<idx, remote>>
            ELSE IF push_stops(outcome)
            THEN /\ pc' = "done"
                 /\ status' = 1
                 /\ UNCHANGED <<idx, remote, fault>>
            ELSE /\ remote' =
                      [remote EXCEPT ![job_groups_db[idx].id].template =
                         Some(files[YamlName(job_groups_db[idx].slug)])]
                 /\ idx' = idx + 1
                 /\ UNCHANGED <<pc, status, fault>>
  /\ UNCHANGED <<store, files, args, job_groups_db, job_groups, exit_code,
                 written, diagnostics, store0, fetch_log, norm_vars>>

\* os._exit(exit_code) after the loop
PushEnd ==
  /\ pc = "push"
  /\ idx > Len(job_groups_db)
  /\ pc' = "done"
  /\ status' = exit_code
  /\ UNCHANGED <<remote, store, files, args, job_groups_db, job_groups, idx,
                 exit_code, fault, requests, written, diagnostics, store0,
                 fetch_log, norm_vars>>

PushLoop ==
  PushSkip \/ PushLookupFails \/ PushPreview \/ PushApply \/ PushEnd

\* ------------------------------------------------------------------------
\* --orphans
\* ------------------------------------------------------------------------

\* (f for f in os.listdir('job_groups') if f.endswith('.yaml'))
YamlFiles(dir) == {f \in DOMAIN dir : EndsWith(f, DotYaml)}

\* A diagnostic printed for a file or for a manifest entry
Diagnostic(kind, file, gid) == [kind |-> kind, file |-> file, gid |-> gid]

\* A check of the file names against the slugs, without ".yaml"
orphaned_files_by_slug(dir, db) ==
  LET job_groups_yaml == {db[i].slug : i \in 1..Len(db)}
  IN {Diagnostic("orphaned_file", f, 0) :
        f \in {g \in YamlFiles(dir) : g \notin job_groups_yaml}}

\* "Found orphaned file": the files that are no key of job_groups_yaml
orphaned_files(dir, db) ==
  LET job_groups_yaml == {YamlName(db[i].slug) : i \in 1..Len(db)}
  IN {Diagnostic("orphaned_file", f, 0) :
        f \in {g \in YamlFiles(dir) : g \notin job_groups_yaml}}

\* "Job group ... doesn't exist on the server"
missing_on_server(db, ids) ==
  {Diagnostic("not_on_server", <<>>, db[i].id) :
     i \in {k \in 1..Len(db) : db[k].id \notin ids}}

\* "Job group file ... doesn't exist": os.path.exists(jgfile) is false
missing_files(db, dir) ==
  {Diagnostic("missing_file", YamlName(db[i].slug), db[i].id) :
     i \in {k \in 1..Len(db) : YamlName(db[k].slug) \notin DOMAIN dir}}

\* exit_code of a check: 1 once a diagnostic has been printed
check_exit_code(found) == IF found = {} THEN 0 ELSE 1

Orphans ==
  \E dry \in BOOLEAN :
    /\ Begin("orphans", dry, None, None)
    /\ job_groups_db' = yaml_load(store)
    /\ diagnostics' =
         orphaned_files(files, job_groups_db')
           \cup missing_on_server(job_groups_db', DOMAIN remote)
           \cup missing_files(job_groups_db', files)
    /\ exit_code' = check_exit_code(diagnostics')
    /\ status' = exit_code'
    /\ idx' = 0
    /\ pc' = "done"
    /\ UNCHANGED <<remote, store, files, fetch_log, norm_vars>>

\* ------------------------------------------------------------------------
\* --headers
\* ------------------------------------------------------------------------

\* "doesn't have a valid header": the file does not start with the header of
\* its path
invalid_headers(dir) ==
  {Diagnostic("invalid_header", f, 0) :
     f \in {g \in YamlFiles(dir) :
              ~has_header(dir[g], generate_header(JobGroupsDir \o g))}}

\* A check for a second header only in the files without a valid one
multiple_headers_of_invalid(dir) ==
  {Diagnostic("multiple_headers", f, 0) :
     f \in {g \in YamlFiles(dir) :
              /\ ~has_header(dir[g], generate_header(JobGroupsDir \o g))
              /\ FindAllCount(ManagedInGit, dir[g]) > 1}}

\* "has multiple headers": the notice of the header is in the file more
\* than once
multiple_headers(dir) ==
  {Diagnostic("multiple_headers", f, 0) :
     f \in {g \in YamlFiles(dir) : FindAllCount(ManagedInGit, dir[g]) > 1}}

Headers ==
  \E dry \in BOOLEAN :
    /\ Begin("headers", dry, None, None)
    /\ job_groups_db' = yaml_load(store)
    /\ diagnostics' = invalid_headers(files) \cup multiple_headers(files)
    /\ exit_code' = check_exit_code(diagnostics')
    /\ status' = exit_code'
    /\ idx' = 0
    /\ pc' = "done"
    /\ UNCHANGED <<remote, store, files, fetch_log, norm_vars>>

\* ------------------------------------------------------------------------
\* Job groups, manifests and files the runs start from
\* ------------------------------------------------------------------------

\* The manifests of at most n entries over the ids and the slugs S, no id
\* twice, in any order of the ids.
RECURSIVE ManifestsOf(_, _)
ManifestsOf(n, S) ==
  IF n = 0 THEN {<<>>}
  ELSE LET shorter == ManifestsOf(n - 1, S)
       IN shorter \cup
          {Append(m, [id |-> i, slug |-> s]) :
             m \in {x \in shorter : Len(x) = n - 1}, i \in Ids, s \in S}

Manifests(S) == {m \in ManifestsOf(MaxId, S) : Cardinality(Keys(m)) = Len(m)}

\* job_groups.yaml holding the entries m in this order; "{}" when it holds none
StoreOf(m) == [exists |-> TRUE, flow |-> (m = <<>>), lines |-> m]

\* --gendb: job groups with a name each on any set of ids; no manifest, the
\* manifest dumped while the server had no job group, the same after
\* --gendb -j 1 has appended to it, or a manifest of at most one entry
GendbInit ==
  /\ \E S \in SUBSET Ids : remote \in [S -> [name : GroupNames, template : {None}]]
  /\ store \in {NoStore, yaml_dump(<<>>), yaml_append(yaml_dump(<<>>), 1, SlugA)} \cup
       {StoreOf(m) : m \in {x \in Manifests({SlugA}) : Len(x) <= 1}}
  /\ files = <<>>
  /\ Idle
  /\ NormIdle

GendbNext == Gendb \/ LoadFails("gendb") \/ ListFails("gendb") \/ Again

SpecGendb == GendbInit /\ [][GendbNext]_vars

\* ------------------------------------------------------------------------
\* Properties of --gendb
\* ------------------------------------------------------------------------

GendbDone == args.action = "gendb" /\ pc = "done" /\ fault = "none"

\* The ids of the lines of job_groups.yaml
LineIds(st) == {st.lines[k].id : k \in 1..Len(st.lines)}

GendbAppendOnly ==
  /\ Cardinality(LineIds(store)) = Len(store.lines)
  /\ (GendbDone /\ TruthyInt(args.filter_job_group)) =>
       LET j == Val(args.filter_job_group)
       IN IF j \in DOMAIN remote /\ j \notin LineIds(store0)
            THEN /\ store.exists
                 /\ store.flow = store0.flow
                 /\ store.lines =
                      Append(store0.lines,
                             [id |-> j,
                              slug |-> normalize_jobgroup_filename(remote[j].name)])
            ELSE store = store0

\* C5: --gendb -j <id> run again: the file held the entry the first run
\* appended, after another entry, and was left as it was.
GendbAppendOnlyWitness ==
  /\ GendbDone
  /\ TruthyInt(args.filter_job_group)
  /\ Val(args.filter_job_group) \in DOMAIN remote
  /\ Len(store0.lines) = 2
  /\ store0.lines[2] =
       [id |-> Val(args.filter_job_group),
        slug |-> normalize_jobgroup_filename(remote[Val(args.filter_job_group)].name)]
  /\ store = store0

\* A template body: "x\n"
Body == <<"x","\n">>

\* The values of -f: none, a slug, the path of a file
FileNameFilters == {None, Some(SlugA), Some(YamlPath(SlugB))}

\* One run of --fetch or --push: any manifest over the ids with the slug "a"
\* for the odd ids and "b" for the even ones, job groups without a template
\* on any set of ids, and the file a.yaml with or without b.yaml
SlugOfId(i) == IF i % 2 = 1 THEN SlugA ELSE SlugB

SyncInit ==
  /\ \E S \in SUBSET Ids : remote = [i \in S |-> [name |-> NameTest, template |-> None]]
  /\ store \in {StoreOf(m) :
                  m \in {x \in Manifests(Slugs) :
                           \A k \in 1..Len(x) : x[k].slug = SlugOfId(x[k].id)}}
  /\ files \in {YamlName(SlugA) :> Body,
                YamlName(SlugA) :> Body @@ YamlName(SlugB) :> Body}
  /\ Idle
  /\ NormIdle

SyncStart ==
  \E dry \in BOOLEAN, jf \in JobGroupFilters, ff \in FileNameFilters :
    FetchStart(dry, jf, ff) \/ PushStart(dry, jf, ff)

SyncNext ==
  SyncStart \/ FetchLoop \/ PushLoop \/ ListFails("fetch") \/ ListFails("push")

SpecSync == SyncInit /\ [][SyncNext]_vars

\* ------------------------------------------------------------------------
\* Properties of --push and --fetch
\* ------------------------------------------------------------------------

\* The entries of the manifest that pass -j and -f, in manifest order
SelectedItems(db, a) ==
  LET Passes(e) == Selected(e, a)
  IN SelectSeq(db, Passes)

\* The first n elements of a sequence
Prefix(q, n) == SubSeq(q, 1, n)

\* The requests are the first selected entries, one request each, in
\* manifest order, all with this preview
RequestsFollow(preview) ==
  LET sel == SelectedItems(job_groups_db, args)
  IN /\ Len(requests) <= Len(sel)
     /\ \A k \in 1..Len(requests) :
          /\ requests[k].gid = sel[k].id
          /\ requests[k].file = YamlName(sel[k].slug)
          /\ requests[k].preview = preview

InLivePush == args.action = "push" /\ ~args.dry_run /\ pc \in {"push", "done"}

InDryPush == args.action = "push" /\ args.dry_run /\ pc \in {"push", "done"}

\* C1: a live push sends the selected entries one at a time, in manifest
\* order, with preview=0; every request before the last one was answered
\* without an error and the server holds that file as the template; a
\* response with an error is the last request of the run, which has ended
\* with status 1, so that nothing is sent for any entry after it.
PushFailFast ==
  InLivePush =>
    /\ RequestsFollow(0)
    /\ \A k \in 1..Len(requests) :
         /\ k < Len(requests) => requests[k].outcome = "ok"
         /\ requests[k].outcome = "ok" =>
              remote[requests[k].gid].template = Some(files[requests[k].file])
         /\ requests[k].outcome = "error" =>
              /\ k = Len(requests)
              /\ pc = "done"
              /\ status = 1

\* C1: the manifest 1, 2, 3, where 1 was applied and 2 answered with an
\* error: the run has ended with status 1 and nothing was sent for 3.
PushFailFastWitness ==
  /\ InLivePush
  /\ pc = "done"
  /\ status = 1
  /\ [k \in 1..Len(job_groups_db) |-> job_groups_db[k].id] = <<1, 2, 3>>
  /\ Len(SelectedItems(job_groups_db, args)) = 3
  /\ [k \in 1..Len(requests) |-> requests[k].outcome] = <<"ok", "error">>

\* C2 as it is stated: a dry-run push submits every selected entry exactly
\* once with preview=1, whatever came before, and ends with status 1 exactly
\* when a response carried an error.
DryRunSubmitsAll ==
  (InDryPush /\ pc = "done" /\ fault # "list") =>
    /\ RequestsFollow(1)
    /\ Len(requests) = Len(SelectedItems(job_groups_db, args))
    /\ status = 1 <=> \E k \in 1..Len(requests) : requests[k].outcome = "error"

\* C2, amended: a dry-run push sends the selected entries in manifest order
\* with preview=1, and a response with an error does not end the run: while
\* the loop runs, and when it has reached the end of the manifest, every
\* selected entry it has passed was submitted exactly once, and the exit
\* code is 1 exactly when one of the responses carried an error.  Only a
\* selected entry whose id the server does not list, or output of openqa-cli
\* that is not JSON, cuts the run short, and then the status is 1.
DryRunAccumulates ==
  (InDryPush /\ fault # "list") =>
    LET sel    == SelectedItems(job_groups_db, args)
        passed == SelectedItems(Prefix(job_groups_db, idx - 1), args)
        errors == {k \in 1..Len(requests) : requests[k].outcome = "error"}
    IN /\ RequestsFollow(1)
       /\ \A k \in 1..Len(requests) :
            k < Len(requests) => requests[k].outcome \in {"ok", "error"}
       /\ fault = "none" =>
            /\ Len(requests) = Len(passed)
            /\ exit_code = 1 <=> errors # {}
            /\ exit_code \in {0, 1}
       /\ (pc = "done" /\ fault = "none") =>
            /\ Len(requests) = Len(sel)
            /\ status = exit_code
       /\ (pc = "done" /\ fault # "none") =>
            /\ status = 1
            /\ Selected(job_groups_db[idx], args)
            /\ fault = "lookup" =>
                 /\ job_groups_db[idx].id \notin SnapshotIds
                 /\ Len(requests) = Len(passed)
            /\ fault = "api" =>
                 /\ requests[Len(requests)].outcome = "garbage"
                 /\ Len(requests) = Len(passed) + 1
       /\ fault \in {"none", "lookup", "api"}

\* C2: the manifest 1, 2, 3 in a dry run, where 2 answered with an error:
\* all three were submitted and the status is 1.
DryRunAccumulatesWitness ==
  /\ InDryPush
  /\ pc = "done"
  /\ fault = "none"
  /\ status = 1
  /\ [k \in 1..Len(requests) |-> requests[k].gid] = <<1, 2, 3>>
  /\ [k \in 1..Len(requests) |-> requests[k].outcome] = <<"ok", "error", "ok">>

InLoopRun == args.action \in {"fetch", "push"} /\ pc \in {"fetch", "push", "done"}

\* C10: fetch and push never pass a selected entry whose id the server does
\* not list: the loop stops at it with a lookup failure and status 1, no
\* request for that id is sent and fetch has written nothing for it, also
\* with --dry-run.  What was done for the selected entries before it stays:
\* fetch has written the file of each of them, push has sent one request for
\* each of them.
MissingIdStopsRun ==
  InLoopRun =>
    LET passed == SelectedItems(Prefix(job_groups_db, idx - 1), args)
    IN /\ \A k \in 1..Len(job_groups_db) :
            (/\ Selected(job_groups_db[k], args)
             /\ job_groups_db[k].id \notin SnapshotIds
             /\ fault # "list") =>
              /\ idx <= k
              /\ \A r \in 1..Len(requests) : requests[r].gid # job_groups_db[k].id
              /\ (idx = k /\ pc = "done") => (fault = "lookup" /\ status = 1)
       /\ fault = "lookup" =>
            /\ pc = "done"
            /\ status = 1
            /\ Selected(job_groups_db[idx], args)
            /\ job_groups_db[idx].id \notin SnapshotIds
            /\ Len(requests) = (IF args.action = "push" THEN Len(passed) ELSE 0)
            /\ written = (IF args.action = "fetch" /\ ~args.dry_run
                            THEN [k \in 1..Len(passed) |-> YamlName(passed[k].slug)]
                            ELSE <<>>)
            /\ \A k \in 1..Len(written) : written[k] \in DOMAIN files

\* C10: a fetch that wrote the file of one entry and then stopped at an
\* entry the server does not list
MissingIdStopsRunWitness ==
  /\ args.action = "fetch"
  /\ ~args.dry_run
  /\ pc = "done"
  /\ fault = "lookup"
  /\ Len(written) = 1
  /\ idx = 2
  /\ Len(job_groups_db) = 3

\* Runs of --fetch and --push one after the other: the job groups 1 and 2,
\* the first without a template; a.yaml with its header after a separator
\* line and b.yaml with the header of a.yaml; the manifest gives both ids
\* the slug "a" or one each
FetchInit ==
  /\ remote = (1 :> [name |-> NameTest, template |-> None]
               @@ 2 :> [name |-> NameDevel, template |-> Some(Body)])
  /\ store \in {StoreOf(<<[id |-> 1, slug |-> SlugA], [id |-> 2, slug |-> s]>>) :
                  s \in Slugs}
  /\ files = (YamlName(SlugA) :>
                (SeparatorLine \o generate_header(YamlPath(SlugA)) \o <<"\n">> \o Body)
              @@ YamlName(SlugB) :>
                (generate_header(YamlPath(SlugA)) \o <<"\n">> \o Body))
  /\ Idle
  /\ NormIdle

FetchRunsStart ==
  \E jf \in {None, Some(1)} :
    \/ \E dry \in BOOLEAN : FetchStart(dry, jf, None)
    \/ PushStart(FALSE, jf, None)

FetchRunsNext ==
  \/ FetchRunsStart
  \/ FetchSkip \/ FetchDryRun \/ FetchWrite \/ FetchEnd
  \/ PushSkip \/ PushApply \/ PushEnd
  \/ Again

SpecFetch == FetchInit /\ [][FetchRunsNext]_vars

\* ------------------------------------------------------------------------
\* Properties of the text --fetch writes
\* ------------------------------------------------------------------------

\* The template of a job group as a text: the empty scaffold for None
TemplateText(template) == IF template = None THEN EmptyTemplate ELSE Val(template)

\* C7: what fetch last wrote to a file is the template (the empty scaffold
\* for a job group without one) itself when that starts with the header of
\* the file, directly or after the line "---", and the header, a line break
\* and the template otherwise; the file holds that text.  Of two fetches of
\* the same file in a row, the second wrote the same text as the first when
\* the template was the same, and wrote its template back unchanged when
\* that template was the text the first had written.
FetchStampsOnce ==
  \A f \in DOMAIN fetch_log :
    LET log    == fetch_log[f]
        last   == log[Len(log)]
        header == generate_header(JobGroupsDir \o f)
        body   == TemplateText(last.template)
    IN /\ last.text =
            (IF StartsWith(body, header) \/ StartsWith(body, SeparatorLine \o header)
               THEN body
               ELSE header \o <<"\n">> \o body)
       /\ files[f] = last.text
       /\ Len(log) = 2 =>
            /\ log[2].template = log[1].template => log[2].text = log[1].text
            /\ log[2].template = Some(log[1].text) => log[2].text = log[1].text

\* C7: a.yaml fetched, pushed and fetched again: the first fetch put the
\* header before the template, the second found its own text as the template
\* and wrote it back; and the text pushed from the a.yaml of the start, which
\* has the header after the line "---", was fetched unchanged.
FetchStampsOnceWitness ==
  /\ YamlName(SlugA) \in DOMAIN fetch_log
  /\ LET log == fetch_log[YamlName(SlugA)]
     IN /\ Len(log) = 2
        /\ log[1].text # TemplateText(log[1].template)
        /\ log[2].template = Some(log[1].text)
        /\ log[2].text = log[1].text
  /\ pc = "done"

\* One run of --orphans: any manifest, job groups on any set of ids, and any
\* of the files a.yaml, b.yaml and a
OrphansInit ==
  /\ \E S \in SUBSET Ids : remote = [i \in S |-> [name |-> NameTest, template |-> None]]
  /\ store \in {StoreOf(m) : m \in Manifests(Slugs)}
  /\ \E D \in SUBSET {YamlName(SlugA), YamlName(SlugB), SlugA} : files = [f \in D |-> Body]
  /\ Idle
  /\ NormIdle

OrphansNext == Orphans \/ ListFails("orphans")

SpecOrphans == OrphansInit /\ [][OrphansNext]_vars

\* ------------------------------------------------------------------------
\* Properties of --orphans
\* ------------------------------------------------------------------------

Reported(kind) == {d \in diagnostics : d.kind = kind}

\* C3: a run of --orphans reports every *.yaml file of job_groups/ that is
\* not <slug>.yaml for a slug of the manifest, every id of the manifest that
\* the server does not list, and every entry of the manifest whose file
\* <slug>.yaml does not exist, each of them once and nothing else; its
\* status is not 0 exactly when it has reported something.
OrphansExact ==
  (args.action = "orphans" /\ pc = "done" /\ fault = "none") =>
    LET db      == yaml_load(store)
        slugs   == {db[k].slug : k \in 1..Len(db)}
        orphans == {f \in DOMAIN files :
                      /\ EndsWith(f, DotYaml)
                      /\ ~\E g \in slugs : f = g \o DotYaml}
        gone    == {db[k].id : k \in 1..Len(db)} \ DOMAIN remote
        nofile  == {k \in 1..Len(db) : (db[k].slug \o DotYaml) \notin DOMAIN files}
    IN /\ {d.file : d \in Reported("orphaned_file")} = orphans
       /\ {d.gid : d \in Reported("not_on_server")} = gone
       /\ {d.gid : d \in Reported("missing_file")} = {db[k].id : k \in nofile}
       /\ \A d \in Reported("missing_file") :
            \E k \in nofile : d.gid = db[k].id /\ d.file = db[k].slug \o DotYaml
       /\ Cardinality(diagnostics) =
            Cardinality(orphans) + Cardinality(gone) + Cardinality(nofile)
       /\ status # 0 <=> diagnostics # {}

\* C3: the manifest {1: "a"}, the job group 1 on the server, the files
\* a.yaml and b.yaml: one diagnostic, the orphan b.yaml, and status 1
OrphansExactWitness ==
  /\ args.action = "orphans"
  /\ pc = "done"
  /\ fault = "none"
  /\ yaml_load(store) = <<[id |-> 1, slug |-> SlugA]>>
  /\ 1 \in DOMAIN remote
  /\ DOMAIN files = {YamlName(SlugA), YamlName(SlugB)}
  /\ diagnostics = {Diagnostic("orphaned_file", YamlName(SlugB), 0)}
  /\ status = 1

\* A slug of 40 characters: the path of its file is longer than the notices
\* of the header
SlugLong == Repeat("x", 40)

\* The texts a file in job_groups/ may hold: its header and a body, the same
\* after a separator line, no header, the header twice, the header and the
\* notice in the body, the header of another file, the notice twice without
\* a header, nothing
TextsOf(name) ==
  LET header == generate_header(JobGroupsDir \o name)
      other  == generate_header(JobGroupsDir \o <<"z">> \o name)
      nl     == <<"\n">>
  IN { header \o nl \o Body,
       SeparatorLine \o header \o nl \o Body,
       Body,
       header \o nl \o header \o nl \o Body,
       header \o nl \o ManagedInGit \o nl,
       other \o nl \o Body,
       ManagedInGit \o nl \o ManagedInGit \o nl,
       <<>> }

\* One run of --headers: no manifest, no job groups, and any of the files
\* a.yaml, b.yaml, the file of the long slug and a, with any of these texts
HeadersInit ==
  /\ remote = <<>>
  /\ store = NoStore
  /\ \E D \in SUBSET {YamlName(SlugA), YamlName(SlugB)} :
       \E E \in SUBSET {YamlName(SlugLong), SlugA} :
         \E ta \in TextsOf(YamlName(SlugA)), tb \in TextsOf(YamlName(SlugB)),
            tl \in {generate_header(YamlPath(SlugLong)) \o <<"\n">> \o Body, Body} :
           files = [f \in D \cup E |->
                      IF f = YamlName(SlugA) THEN ta
                      ELSE IF f = YamlName(SlugB) THEN tb
                      ELSE IF f = YamlName(SlugLong) THEN tl
                      ELSE Body]
  /\ Idle
  /\ NormIdle

HeadersNext == Headers \/ ListFails("headers")

SpecHeaders == HeadersInit /\ [][HeadersNext]_vars

\* ------------------------------------------------------------------------
\* Properties of --headers
\* ------------------------------------------------------------------------

\* The places of a text where the notice "This file is managed in GIT!"
\* begins
NoticePlaces(text) ==
  {i \in 1..Len(text) :
     /\ i + Len(ManagedInGit) - 1 <= Len(text)
     /\ SubSeq(text, i, i + Len(ManagedInGit) - 1) = ManagedInGit}

NameFragments ==
  { <<"A">>, <<"b">>, <<" ">>, <<"_">>, <<"-">>, <<"(">>, <<")">>, <<":">>,
    <<"/">>, <<",">>, <<"+">>, DeprecatedMarker }

RECURSIVE NamesOfParts(_)
NamesOfParts(n) ==
  IF n = 0 THEN {<<>>}
  ELSE LET shorter == NamesOfParts(n - 1)
       IN shorter \cup {s \o f : s \in shorter, f \in NameFragments}

NormInit ==
  /\ norm_in \in NamesOfParts(MaxNameParts)
  /\ norm_out = <<>>
  /\ norm_calls = 0
  /\ remote = <<>>
  /\ store = NoStore
  /\ files = <<>>
  /\ Idle

\* fs_name = normalize_jobgroup_filename(name)
NormalizeName ==
  /\ norm_calls = 0
  /\ norm_out' = normalize_jobgroup_filename(norm_in)
  /\ norm_calls' = 1
  /\ UNCHANGED <<norm_in, tool_vars>>

\* normalize_jobgroup_filename(fs_name): the slug normalized again
NormalizeSlug ==
  /\ norm_calls = 1
  /\ norm_in' = norm_out
  /\ norm_out' = normalize_jobgroup_filename(norm_out)
  /\ norm_calls' = 2
  /\ UNCHANGED tool_vars

NormNext == NormalizeName \/ NormalizeSlug

SpecNormalize == NormInit /\ [][NormNext]_vars

\* C8 as it is stated: a name normalized twice is the name normalized once,
\* and a normalized name has no two underscores in a row.
NormalizeIdempotent ==
  /\ norm_calls = 2 => norm_out = norm_in
  /\ norm_calls >= 1 =>
       ~\E i \in 1..(Len(norm_out) - 1) : norm_out[i] = "_" /\ norm_out[i + 1] = "_"

\* ------------------------------------------------------------------------
\* One run of the tool in any mode
\* ------------------------------------------------------------------------

Modes == {"gendb", "fetch", "push", "orphans", "headers"}

Init == GendbInit \/ SyncInit \/ HeadersInit

Aborts == \E a \in Modes : LoadFails(a) \/ ListFails(a)

Next ==
  Gendb \/ SyncStart \/ FetchLoop \/ PushLoop \/ Orphans \/ Headers \/ Aborts

Spec == Init /\ [][Next]_vars

\* C6 as it is stated: a run of gendb, fetch or push with --dry-run leaves
\* job_groups.yaml and the files of job_groups/ as they were and sends no
\* request with preview=0.
DryRunChangesNothing ==
  (args.dry_run /\ args.action \in {"gendb", "fetch", "push"}) =>
    /\ store = store0
    /\ written = <<>>
    /\ \A k \in 1..Len(requests) : requests[k].preview = 1

====
